---- MODULE Spec2Model ----
(***************************************************************************)
(* Model of langchain-x402: the X402Wallet ledger (wallet.py), the EIP-3009 *)
(* signing helper (eip3009.py) and the 402 negotiation of X402PaymentTool   *)
(* (tool.py).                                                               *)
(*                                                                          *)
(* The wallet keeps budget_usd and _spent_usd as Python floats, so the      *)
(* model carries IEEE-754 binary64 values: a float is a sign, an odd        *)
(* natural mantissa written as a little-endian sequence of bits, and a      *)
(* binary exponent; every arithmetic result is rounded to 53 significant    *)
(* bits, ties to even, as the hardware does.  Signed zeros, subnormals,     *)
(* infinities and NaN do not arise for the dollar amounts modelled.         *)
(***************************************************************************)
EXTENDS Integers, Sequences, FiniteSets, TLC

(***************************************************************************)
(* Naturals of arbitrary size as little-endian bit sequences (no leading    *)
(* zero at the high end; <<>> is 0).                                        *)
(***************************************************************************)
\* number of leading (high-end) zeros, and the same for the low end
HighZeros(x) ==
    CHOOSE k \in 0..Len(x) :
        /\ k = Len(x) \/ x[Len(x) - k] = 1
        /\ \A j \in (Len(x) - k + 1)..Len(x) : x[j] = 0

LowZeros(x) ==
    CHOOSE k \in 0..Len(x) :
        /\ k = Len(x) \/ x[k + 1] = 1
        /\ \A j \in 1..k : x[j] = 0

BitsTrim(x) == SubSeq(x, 1, Len(x) - HighZeros(x))

RECURSIVE BitsOfNat(_)
BitsOfNat(n) ==
    IF n = 0 THEN <<>> ELSE <<n % 2>> \o BitsOfNat(n \div 2)

BitAt(x, i) == IF i >= 1 /\ i <= Len(x) THEN x[i] ELSE 0

Max2(a, b) == IF a >= b THEN a ELSE b

PadTo(x, n) == x \o [i \in 1..(n - Len(x)) |-> 0]

\* the bits are added LimbBits at a time in machine integers
LimbBits == 15
LimbBase == 32768

\* value of the bits x[i+1..i+15]
Limb(x, i) ==
      BitAt(x, i + 1)         + 2 * BitAt(x, i + 2)     + 4 * BitAt(x, i + 3)
    + 8 * BitAt(x, i + 4)     + 16 * BitAt(x, i + 5)    + 32 * BitAt(x, i + 6)
    + 64 * BitAt(x, i + 7)    + 128 * BitAt(x, i + 8)   + 256 * BitAt(x, i + 9)
    + 512 * BitAt(x, i + 10)  + 1024 * BitAt(x, i + 11) + 2048 * BitAt(x, i + 12)
    + 4096 * BitAt(x, i + 13) + 8192 * BitAt(x, i + 14) + 16384 * BitAt(x, i + 15)

RECURSIVE BitsAddFrom(_, _, _, _)
BitsAddFrom(x, y, i, carry) ==
    IF i >= Len(x) /\ i >= Len(y) THEN BitsOfNat(carry)
    ELSE LET t == Limb(x, i) + Limb(y, i) + carry
         IN  PadTo(BitsOfNat(t % LimbBase), LimbBits)
                \o BitsAddFrom(x, y, i + LimbBits, t \div LimbBase)

BitsAdd(x, y) == BitsTrim(BitsAddFrom(x, y, 0, 0))

RECURSIVE BitsSubFrom(_, _, _, _)
BitsSubFrom(x, y, i, borrow) ==
    IF i >= Len(x) THEN <<>>
    ELSE LET t == Limb(x, i) - Limb(y, i) - borrow
         IN  PadTo(BitsOfNat(t % LimbBase), LimbBits)
                \o BitsSubFrom(x, y, i + LimbBits, IF t < 0 THEN 1 ELSE 0)

\* x - y for x >= y
BitsSub(x, y) == BitsTrim(BitsSubFrom(x, y, 0, 0))

\* -1, 0, 1 as x < y, x = y, x > y: limbs compared from the high end
RECURSIVE BitsCmpFrom(_, _, _)
BitsCmpFrom(x, y, i) ==
    IF i < 0 THEN 0
    ELSE IF Limb(x, i) > Limb(y, i) THEN 1
    ELSE IF Limb(x, i) < Limb(y, i) THEN -1
    ELSE BitsCmpFrom(x, y, i - LimbBits)

BitsCmp(x, y) ==
    BitsCmpFrom(x, y, (Max2(Len(x), Len(y)) \div LimbBits) * LimbBits)

BitsShiftLeft(x, k) ==
    IF x = <<>> THEN <<>> ELSE [i \in 1..k |-> 0] \o x

\* TRUE iff some bit of x[1..n] is set
BitsAnyLow(x, n) == LowZeros(x) < n

(***************************************************************************)
(* binary64 values                                                          *)
(***************************************************************************)
Precision == 53

FloatZero == [neg |-> FALSE, m |-> <<>>, e |-> 0]

\* canonical form: mantissa odd (low zero bits moved into the exponent)
FloatCanon(f) ==
    LET z == LowZeros(f.m)
    IN  IF z = Len(f.m) THEN FloatZero
        ELSE [neg |-> f.neg, m |-> SubSeq(f.m, z + 1, Len(f.m)), e |-> f.e + z]

\* round a sign/mantissa/exponent triple of any length to Precision bits,
\* round-half-to-even
FloatRound(f) ==
    LET L == Len(f.m)
        d == L - Precision
    IN  IF d <= 0 THEN FloatCanon(f)
        ELSE LET kept   == SubSeq(f.m, d + 1, L)
                 guard  == f.m[d]
                 sticky == BitsAnyLow(f.m, d - 1)
                 up     == guard = 1 /\ (sticky \/ kept[1] = 1)
                 r      == IF up THEN BitsAdd(kept, <<1>>) ELSE kept
             IN  FloatCanon([neg |-> f.neg, m |-> r, e |-> f.e + d])

FloatNeg(f) == IF f.m = <<>> THEN f ELSE [f EXCEPT !.neg = ~f.neg]

Min2(a, b) == IF a <= b THEN a ELSE b

FloatAdd(a, b) ==
    IF a.m = <<>> THEN b
    ELSE IF b.m = <<>> THEN a
    ELSE LET e  == Min2(a.e, b.e)
             am == BitsShiftLeft(a.m, a.e - e)
             bm == BitsShiftLeft(b.m, b.e - e)
             c  == BitsCmp(am, bm)
         IN  IF a.neg = b.neg
             THEN FloatRound([neg |-> a.neg, m |-> BitsAdd(am, bm), e |-> e])
             ELSE IF c = 0 THEN FloatZero
             ELSE IF c > 0
             THEN FloatRound([neg |-> a.neg, m |-> BitsSub(am, bm), e |-> e])
             ELSE FloatRound([neg |-> b.neg, m |-> BitsSub(bm, am), e |-> e])

FloatSub(a, b) == FloatAdd(a, FloatNeg(b))

\* sign of a - b computed exactly: -1, 0, 1
FloatCmp(a, b) ==
    IF a.m = <<>> /\ b.m = <<>> THEN 0
    ELSE IF a.m = <<>> THEN (IF b.neg THEN 1 ELSE -1)
    ELSE IF b.m = <<>> THEN (IF a.neg THEN -1 ELSE 1)
    ELSE IF a.neg /= b.neg THEN (IF a.neg THEN -1 ELSE 1)
    ELSE LET e  == Min2(a.e, b.e)
             c  == BitsCmp(BitsShiftLeft(a.m, a.e - e),
                           BitsShiftLeft(b.m, b.e - e))
         IN  IF a.neg THEN 0 - c ELSE c

FloatGE(a, b) == FloatCmp(a, b) >= 0
FloatGT(a, b) == FloatCmp(a, b) > 0
FloatMax(a, b) == IF FloatGT(b, a) THEN b ELSE a

\* Long division of r by d (r < d), ChunkBits quotient bits at a step, until
\* the quotient written so far (q, low end first) has `need` significant
\* bits; returns the quotient, the number of fractional bits and the
\* remainder.  r * 2^ChunkBits stays below 2^31 for every d up to 2^21.
ChunkBits == 10
ChunkBase == 1024

RECURSIVE DivSteps(_, _, _, _, _)
DivSteps(r, d, need, q, steps) ==
    IF Len(BitsTrim(q)) >= need THEN [bits |-> q, steps |-> steps, rem |-> r]
    ELSE DivSteps((r * ChunkBase) % d, d, need,
                  PadTo(BitsOfNat((r * ChunkBase) \div d), ChunkBits) \o q,
                  steps + ChunkBits)

\* the binary64 nearest to n / d, for naturals n and d > 0
FloatFromRatio(n, d) ==
    IF n = 0 THEN FloatZero
    ELSE LET fr == DivSteps(n % d, d, Precision + 2, BitsOfNat(n \div d), 0)
             st == IF fr.rem /= 0 THEN 1 ELSE 0
         IN  FloatRound([neg |-> FALSE,
                         m   |-> BitsTrim(<<st>> \o fr.bits),
                         e   |-> 0 - fr.steps - 1])

(***************************************************************************)
(* decimal.Decimal under the default context: a sign, a coefficient written *)
(* as a little-endian sequence of decimal digits (<<>> is 0) and a decimal  *)
(* exponent; results of arithmetic are rounded to DecimalPrec significant   *)
(* digits, ties to even.  Python integers are unbounded: an integer is a    *)
(* sign and a little-endian digit sequence.                                 *)
(***************************************************************************)
DecimalPrec == 28

Zeros(n) == [i \in 1..n |-> 0]

DigitsHighZeros(x) ==
    CHOOSE k \in 0..Len(x) :
        /\ k = Len(x) \/ x[Len(x) - k] /= 0
        /\ \A j \in (Len(x) - k + 1)..Len(x) : x[j] = 0

DigitsLowZeros(x) ==
    CHOOSE k \in 0..Len(x) :
        /\ k = Len(x) \/ x[k + 1] /= 0
        /\ \A j \in 1..k : x[j] = 0

DigitsLowNines(x) ==
    CHOOSE k \in 0..Len(x) :
        /\ k = Len(x) \/ x[k + 1] /= 9
        /\ \A j \in 1..k : x[j] = 9

DigitsTrim(x) == SubSeq(x, 1, Len(x) - DigitsHighZeros(x))

RECURSIVE DigitsOfNat(_)
DigitsOfNat(n) ==
    IF n = 0 THEN <<>> ELSE <<n % 10>> \o DigitsOfNat(n \div 10)

\* x + 1
DigitsInc(x) ==
    IF DigitsLowNines(x) = Len(x) THEN Zeros(Len(x)) \o <<1>>
    ELSE Zeros(DigitsLowNines(x))
            \o <<x[DigitsLowNines(x) + 1] + 1>>
            \o SubSeq(x, DigitsLowNines(x) + 2, Len(x))

Reverse(x) == [i \in 1..Len(x) |-> x[Len(x) + 1 - i]]

IntOf(neg, digits) ==
    [neg |-> neg /\ DigitsTrim(digits) /= <<>>, digits |-> DigitsTrim(digits)]

Decimal(neg, digits, exp) ==
    [neg |-> neg, digits |-> DigitsTrim(digits), exp |-> exp]

\* Decimal(i) for a Python integer i: exact
DecimalFromInt(i) == Decimal(i.neg, i.digits, 0)

\* the context's rounding of an exact result
DecimalRoundKept(d, drop, kept, up) ==
    IF ~up THEN Decimal(d.neg, kept, d.exp + drop)
    ELSE IF DigitsLowNines(kept) = Len(kept)
    THEN Decimal(d.neg, Zeros(Len(kept) - 1) \o <<1>>, d.exp + drop + 1)
    ELSE Decimal(d.neg, DigitsInc(kept), d.exp + drop)

DecimalRoundAt(d, drop) ==
    DecimalRoundKept(d, drop, SubSeq(d.digits, drop + 1, Len(d.digits)),
        \/ d.digits[drop] > 5
        \/ /\ d.digits[drop] = 5
           /\ \/ DigitsLowZeros(d.digits) < drop - 1
              \/ d.digits[drop + 1] % 2 = 1)

DecimalRound(d) ==
    IF Len(d.digits) <= DecimalPrec THEN d
    ELSE DecimalRoundAt(d, Len(d.digits) - DecimalPrec)

\* trailing zeros of the coefficient removed while the exponent is below
\* ideal (what division does with an exact quotient)
DecimalStripTo(d, ideal) ==
    IF d.digits = <<>> \/ d.exp >= ideal THEN d
    ELSE Decimal(d.neg,
                 SubSeq(d.digits,
                        Min2(DigitsLowZeros(d.digits), ideal - d.exp) + 1,
                        Len(d.digits)),
                 d.exp + Min2(DigitsLowZeros(d.digits), ideal - d.exp))

\* d / Decimal(10^k); a zero quotient takes the ideal exponent
DecimalDivPow10(d, k) ==
    IF d.digits = <<>> THEN d
    ELSE DecimalRound(DecimalStripTo(Decimal(d.neg, d.digits, d.exp - k),
                                     d.exp))

\* d * Decimal(10^k)
DecimalMulPow10(d, k) ==
    IF d.digits = <<>> THEN d
    ELSE DecimalRound(Decimal(d.neg, Zeros(k) \o d.digits, d.exp))

\* int(d): truncation towards zero
DecimalToInt(d) ==
    IF d.exp >= 0 THEN IntOf(d.neg, Zeros(d.exp) \o d.digits)
    ELSE IntOf(d.neg, SubSeq(d.digits, 1 - d.exp, Len(d.digits)))

\* str(d) as sign, coefficient digits in reading order and exponent, and
\* Decimal(s) of such a string: the constructor does not round
DecimalStr(d) ==
    [sign |-> IF d.neg THEN "-" ELSE "", coefficient |-> Reverse(d.digits),
     exponent |-> d.exp]

DecimalParse(str) ==
    Decimal(str.sign = "-", Reverse(str.coefficient), str.exponent)

\* numerical equality of two Decimals (Decimal.__eq__)
DecimalEq(a, b) ==
    \/ a.digits = <<>> /\ b.digits = <<>>
    \/ /\ a.digits /= <<>> /\ b.digits /= <<>>
       /\ a.neg = b.neg
       /\ a.exp + DigitsLowZeros(a.digits) = b.exp + DigitsLowZeros(b.digits)
       /\ SubSeq(a.digits, DigitsLowZeros(a.digits) + 1, Len(a.digits))
             = SubSeq(b.digits, DigitsLowZeros(b.digits) + 1, Len(b.digits))

(***************************************************************************)
(* eip3009.py                                                               *)
(***************************************************************************)
\* optional values: <<>> is None, <<v>> is the value v
None == <<>>
Some(v) == <<v>>

CHAIN_IDS ==
    [n \in {"eip155:8453", "eip155:84532", "eip155:1", "eip155:11155111",
            "eip155:5042002", "base-mainnet", "base-sepolia",
            "ethereum-mainnet", "ethereum-sepolia", "arc-testnet"} |->
        CASE n \in {"eip155:8453", "base-mainnet"}         -> 8453
          [] n \in {"eip155:84532", "base-sepolia"}        -> 84532
          [] n \in {"eip155:1", "ethereum-mainnet"}        -> 1
          [] n \in {"eip155:11155111", "ethereum-sepolia"} -> 11155111
          [] n \in {"eip155:5042002", "arc-testnet"}       -> 5042002]

USDC_CONTRACTS ==
    [n \in DOMAIN CHAIN_IDS |->
        CASE CHAIN_IDS[n] = 8453     -> "0x833589fCD6eDb6E08f4c7C32D4f71b54bdA02913"
          [] CHAIN_IDS[n] = 84532    -> "0x036CbD53842c5426634e7929541eC2318f3dCF7e"
          [] CHAIN_IDS[n] = 1        -> "0xA0b86991c6218b36c1d19D4a2e9Eb0cE3606eB48"
          [] CHAIN_IDS[n] = 11155111 -> "0x1c7D4B196Cb0C7B01d064914d0da28F12c7d0b86"
          [] CHAIN_IDS[n] = 5042002  -> "0x3600000000000000000000000000000000000000"]

TransferAuthorization(from_address, to_address, value, valid_after, valid_before, nonce) ==
    [from_address |-> from_address, to_address |-> to_address,
     value |-> value, valid_after |-> valid_after,
     valid_before |-> valid_before, nonce |-> nonce]

\* the typed data that is signed: domain (chain id, token contract) and
\* message; None when the network has no chain id or contract (ValueError)
build_eip712_message(authorization, net) ==
    IF net \notin DOMAIN CHAIN_IDS THEN None
    ELSE Some([domain  |-> [name |-> "USD Coin", version |-> "2",
                            chainId |-> CHAIN_IDS[net],
                            verifyingContract |-> USDC_CONTRACTS[net]],
               message |-> [from |-> authorization.from_address,
                            to |-> authorization.to_address,
                            value |-> authorization.value,
                            validAfter |-> authorization.valid_after,
                            validBefore |-> authorization.valid_before,
                            nonce |-> authorization.nonce]])

\* the signer that encodes any integer
typed_data_encodes_any(message) == TRUE

\* lines 104-110 and 156-160: sign_typed_data encodes value, validAfter and
\* validBefore as the uint256 the type schema declares; an integer below 0
\* has no such encoding and the encoder raises (an encoding error, which is
\* no ValueError)
typed_data_encodes(message) ==
    message.value >= 0 /\ message.validAfter >= 0 /\ message.validBefore >= 0

\* the signature is a function of the key and of the typed data only; it is
\* kept symbolic: the pair of what was signed and the key that signed it.
\* None when build_eip712_message or sign_typed_data raises
sign_transfer_authorization(key, authorization, net) ==
    LET typed_data == build_eip712_message(authorization, net)
    IN  IF typed_data = None THEN None
        ELSE IF ~typed_data_encodes(typed_data[1].message) THEN None
        ELSE Some([signer |-> key, signed |-> typed_data[1]])

get_wallet_address(key) == <<"address_of", key>>

(***************************************************************************)
(* wallet.py                                                                *)
(***************************************************************************)
UnitsPerUsd == 1000000

\* float(Decimal(units) / Decimal(1_000_000)): the decimal quotient is exact
\* and float() rounds it correctly
units_to_usd(units) ==
    IF units >= 0 THEN FloatFromRatio(units, UnitsPerUsd)
    ELSE FloatNeg(FloatFromRatio(0 - units, UnitsPerUsd))

\* lines 101-113: the Decimal that units_to_usd returns, for a Python
\* integer units
units_to_usd_decimal(units) == DecimalDivPow10(DecimalFromInt(units), 6)

\* lines 115-125: int(Decimal(str(usd)) * Decimal(1_000_000)) for a Decimal
\* usd
usd_to_units(usd) ==
    DecimalToInt(DecimalMulPow10(DecimalParse(DecimalStr(usd)), 6))

\* a wallet value: the fields of X402Wallet that the operations read
remaining_usd(budget, spent) == FloatMax(FloatZero, FloatSub(budget, spent))

\* the check that affords everything
can_afford_always(budget, spent, amount_usd) == TRUE

can_afford(budget, spent, amount_usd) ==
    FloatGE(remaining_usd(budget, spent), amount_usd)

PaymentRecord(to_address, amount_usd, amount_units, net, nonce, signature, resource_url) ==
    [to_address |-> to_address, amount_usd |-> amount_usd,
     amount_units |-> amount_units, network |-> net, nonce |-> nonce,
     signature |-> signature, resource_url |-> resource_url]

\* sign_payment with the spend added before the affordability check decides
sign_payment_charges_on_failure(w, to_address, amount_units, valid_before, resource_url, nonce) ==
    [outcome |-> IF can_afford(w.budget_usd, w.spent_usd,
                               units_to_usd(amount_units))
                 THEN "Signed" ELSE "BudgetExceeded",
     signature |-> None, nonce |-> None, authorization |-> None,
     spent_usd |-> FloatAdd(w.spent_usd, units_to_usd(amount_units)),
     payments |-> w.payments]

\* sign_payment that keeps only the newest record
sign_payment_overwrites_history(w, to_address, amount_units, valid_before, resource_url, nonce) ==
    LET r == sign_payment_charges_on_failure(w, to_address, amount_units,
                 valid_before, resource_url, nonce)
    IN  IF r.outcome /= "Signed" THEN [r EXCEPT !.spent_usd = w.spent_usd]
        ELSE [r EXCEPT !.signature = Some("sig"), !.nonce = Some(nonce),
                       !.payments = <<PaymentRecord(to_address,
                            units_to_usd(amount_units), amount_units,
                            w.network, nonce, "sig", resource_url)>>]

\* X402Wallet.sign_payment run to completion on the wallet w =
\* [private_key, address, network, budget_usd, spent_usd, payments] with the
\* nonce that generate_nonce() draws.  The result carries the outcome, the
\* returned (signature, nonce) and the wallet fields after the call.
sign_payment(w, to_address, amount_units, valid_before, resource_url, nonce) ==
    LET amount_usd == units_to_usd(amount_units)
        authorization == TransferAuthorization(w.address, to_address,
                             amount_units, 0, valid_before, nonce)
        signature == sign_transfer_authorization(w.private_key, authorization,
                                                 w.network)
    IN  IF ~can_afford(w.budget_usd, w.spent_usd, amount_usd)
        THEN [outcome |-> "BudgetExceeded", signature |-> None,
              nonce |-> None, authorization |-> None,
              spent_usd |-> w.spent_usd, payments |-> w.payments]
        ELSE IF signature = None
        THEN [outcome |-> IF build_eip712_message(authorization, w.network)
                                = None
                          THEN "UnsupportedNetwork" ELSE "EncodingError",
              signature |-> None,
              nonce |-> None, authorization |-> None,
              spent_usd |-> w.spent_usd, payments |-> w.payments]
        ELSE [outcome |-> "Signed", signature |-> signature,
              nonce |-> Some(nonce), authorization |-> Some(authorization),
              spent_usd |-> FloatAdd(w.spent_usd, amount_usd),
              payments |-> Append(w.payments,
                  PaymentRecord(to_address, amount_usd, amount_units,
                                w.network, nonce, signature[1], resource_url))]

\* reset_budget that leaves the history in place
reset_budget_keeps_history(w, new_budget_usd) ==
    [budget_usd |-> IF new_budget_usd /= None THEN new_budget_usd[1]
                    ELSE w.budget_usd,
     spent_usd  |-> FloatZero,
     payments   |-> w.payments]

\* X402Wallet.reset_budget: new_budget_usd is None or Some(float)
reset_budget(w, new_budget_usd) ==
    [budget_usd |-> IF new_budget_usd /= None THEN new_budget_usd[1]
                    ELSE w.budget_usd,
     spent_usd  |-> FloatZero,
     payments   |-> <<>>]

(***************************************************************************)
(* State                                                                    *)
(***************************************************************************)
VARIABLES
    private_key,   \* X402Wallet.private_key
    address,       \* X402Wallet._address
    network,       \* X402Wallet.network
    budget_usd,    \* X402Wallet.budget_usd (float)
    spent_usd,     \* X402Wallet._spent_usd (float)
    payments,      \* X402Wallet._payments
    auto_pay,      \* X402PaymentTool.auto_pay
    calls,         \* the negotiation calls (_run / _arun) in progress
    threads,       \* threads inside X402Wallet.sign_payment
    last           \* what the most recent direct wallet call returned

identity == <<private_key, address, network>>
ledger   == <<budget_usd, spent_usd, payments>>
vars     == <<private_key, address, network, budget_usd, spent_usd, payments,
              auto_pay, calls, threads, last>>

Wallet ==
    [private_key |-> private_key, address |-> address, network |-> network,
     budget_usd |-> budget_usd, spent_usd |-> spent_usd,
     payments |-> payments]

(***************************************************************************)
(* Inputs                                                                   *)
(***************************************************************************)
MaxPayments == 3

TestKey      == "0xac0974be"
WalletNetworks == {"base-sepolia", "solana-devnet"}
BudgetUnits  == {300000, 900000, 1000000, 3400000}
AmountUnits  == {100000, 200000, 700000, 1200000, 2200000}
Payees       == {"0x1234"}
Deadlines    == {2000000000}
Nonces       == {"n1", "n2"}
Urls         == {"https://example.com/api"}

NumCalls   == 1
NumThreads == 2
Calls   == 1..NumCalls
Threads == 1..NumThreads

IdleCall   == [pc |-> "idle"]
IdleThread == [pc |-> "idle"]

\* the state after X402Wallet(private_key, network, budget_usd) and
\* X402PaymentTool(wallet, auto_pay)
InitWith(nets, budgets, autos) ==
    /\ private_key = TestKey
    /\ address = get_wallet_address(TestKey)
    /\ network \in nets
    /\ budget_usd \in {units_to_usd(b) : b \in budgets}
    /\ spent_usd = FloatZero
    /\ payments = <<>>
    /\ auto_pay \in autos
    /\ calls = [c \in Calls |-> IdleCall]
    /\ threads = [t \in Threads |-> IdleThread]
    /\ last = [op |-> "init", outcome |-> "init", amount_units |-> 0,
               arg |-> None]

(***************************************************************************)
(* Direct wallet calls, one at a time                                       *)
(***************************************************************************)
SignPayment(to_address, amount_units, valid_before, resource_url, nonce) ==
    /\ Len(payments) < MaxPayments
    /\ LET r == sign_payment(Wallet, to_address, amount_units, valid_before,
                             resource_url, nonce)
       IN  /\ spent_usd' = r.spent_usd
           /\ payments' = r.payments
           /\ last' = [op |-> "sign_payment", outcome |-> r.outcome,
                       amount_units |-> amount_units, arg |-> Some(nonce)]
    /\ UNCHANGED <<identity, budget_usd, auto_pay, calls, threads>>

ResetBudget(new_budget_usd) ==
    /\ LET r == reset_budget(Wallet, new_budget_usd)
       IN  /\ budget_usd' = r.budget_usd
           /\ spent_usd' = r.spent_usd
           /\ payments' = r.payments
    /\ last' = [op |-> "reset_budget", outcome |-> "Reset", amount_units |-> 0,
                arg |-> new_budget_usd]
    /\ UNCHANGED <<identity, auto_pay, calls, threads>>

DoSignPayment ==
    \E to \in Payees, u \in AmountUnits, vb \in Deadlines, url \in Urls,
       n \in Nonces : SignPayment(to, u, vb, url, n)

DoResetBudget ==
    \E b \in {None} \cup {Some(units_to_usd(x)) : x \in BudgetUnits} :
        ResetBudget(b)

InitWallet == InitWith(WalletNetworks, BudgetUnits, {TRUE})
NextWallet == DoSignPayment \/ DoResetBudget
SpecWallet == InitWallet /\ [][NextWallet]_vars

(***************************************************************************)
(* Ledger arithmetic in exact decimal, for comparison                       *)
(***************************************************************************)
RECURSIVE SumUnits(_)
SumUnits(h) ==
    IF h = <<>> THEN 0 ELSE h[Len(h)].amount_units + SumUnits(SubSeq(h, 1, Len(h) - 1))

\* the budget as the decimal the caller wrote, in units of 10^-6 USD
BudgetInUnits == CHOOSE b \in BudgetUnits : units_to_usd(b) = budget_usd

\* C1: in every state reachable by sign_payment and reset_budget calls made
\* one at a time, cumulative spend is at most the budget ceiling
C1_SpendWithinBudget == FloatGE(budget_usd, spent_usd)

\* C3: a sign_payment call that fails with BudgetExceeded leaves cumulative
\* spend, payment history and budget ceiling exactly as they were
C3_FailedSignLeavesLedger ==
    [][last'.outcome = "BudgetExceeded" => ledger' = ledger]_vars

\* a refusal after an earlier payment was recorded
C3_Witness ==
    /\ last.op = "sign_payment" /\ last.outcome = "BudgetExceeded"
    /\ Len(payments) >= 1

\* C5: while the amounts paid sum to S <= B, remaining_usd is B - S and
\* spent_usd is S, as decimals, after each successful call
C5_RemainingIsBudgetMinusPaid ==
    SumUnits(payments) <= BudgetInUnits =>
        /\ remaining_usd(budget_usd, spent_usd)
              = units_to_usd(BudgetInUnits - SumUnits(payments))
        /\ spent_usd = units_to_usd(SumUnits(payments))

(***************************************************************************)
(* Threads calling sign_payment on one wallet.  Nothing in sign_payment     *)
(* takes a lock, so a thread can be preempted between any two of its        *)
(* statements; `self._spent_usd += amount_usd` is a read followed by a      *)
(* write.                                                                   *)
(***************************************************************************)
ThreadBudgetUnits == {1000000}
ThreadAmountUnits == {600000, 700000}

\* sign_payment is entered; line 149 converts the amount
ThreadCall(t, to_address, amount_units, valid_before, resource_url) ==
    /\ threads[t].pc = "idle"
    /\ threads' = [threads EXCEPT ![t] =
          [pc |-> "check", to_address |-> to_address,
           amount_units |-> amount_units, valid_before |-> valid_before,
           resource_url |-> resource_url,
           amount_usd |-> units_to_usd(amount_units)]]
    /\ UNCHANGED <<identity, ledger, auto_pay, calls, last>>

\* lines 151-155
ThreadCheck(t) ==
    /\ threads[t].pc = "check"
    /\ threads' = [threads EXCEPT ![t] =
          IF can_afford(budget_usd, spent_usd, threads[t].amount_usd)
          THEN [@ EXCEPT !.pc = "sign"]
          ELSE [pc |-> "raised", outcome |-> "BudgetExceeded",
                amount_units |-> @.amount_units]]
    /\ UNCHANGED <<identity, ledger, auto_pay, calls, last>>

\* lines 157-175
ThreadSign(t, nonce) ==
    /\ threads[t].pc = "sign"
    /\ LET th == threads[t]
           authorization == TransferAuthorization(address, th.to_address,
                                th.amount_units, 0, th.valid_before, nonce)
           signature == sign_transfer_authorization(private_key,
                                authorization, network)
       IN  threads' = [threads EXCEPT ![t] =
              IF signature = None
              THEN [pc |-> "raised", outcome |-> "UnsupportedNetwork",
                    amount_units |-> th.amount_units]
              ELSE [pc |-> "load", to_address |-> th.to_address,
                    amount_units |-> th.amount_units,
                    resource_url |-> th.resource_url,
                    amount_usd |-> th.amount_usd, nonce |-> nonce,
                    signature |-> signature[1]]]
    /\ UNCHANGED <<identity, ledger, auto_pay, calls, last>>

\* line 178, the read of self._spent_usd
ThreadLoadSpent(t) ==
    /\ threads[t].pc = "load"
    /\ threads' = [threads EXCEPT ![t] =
          [pc |-> "store", to_address |-> @.to_address,
           amount_units |-> @.amount_units, resource_url |-> @.resource_url,
           amount_usd |-> @.amount_usd, nonce |-> @.nonce,
           signature |-> @.signature, loaded |-> spent_usd]]
    /\ UNCHANGED <<identity, ledger, auto_pay, calls, last>>

\* line 178, the write of self._spent_usd
ThreadStoreSpent(t) ==
    /\ threads[t].pc = "store"
    /\ spent_usd' = FloatAdd(threads[t].loaded, threads[t].amount_usd)
    /\ threads' = [threads EXCEPT ![t] =
          [pc |-> "append", to_address |-> @.to_address,
           amount_units |-> @.amount_units, resource_url |-> @.resource_url,
           amount_usd |-> @.amount_usd, nonce |-> @.nonce,
           signature |-> @.signature]]
    /\ UNCHANGED <<identity, budget_usd, payments, auto_pay, calls, last>>

\* lines 179-192
ThreadAppend(t) ==
    /\ threads[t].pc = "append"
    /\ LET th == threads[t]
       IN  /\ payments' = Append(payments,
                  PaymentRecord(th.to_address, th.amount_usd, th.amount_units,
                                network, th.nonce, th.signature,
                                th.resource_url))
           /\ threads' = [threads EXCEPT ![t] =
                  [pc |-> "returned", outcome |-> "Signed",
                   amount_units |-> th.amount_units]]
    /\ UNCHANGED <<identity, budget_usd, spent_usd, auto_pay, calls, last>>

DoThreadCall ==
    \E t \in Threads, to \in Payees, u \in ThreadAmountUnits,
       vb \in Deadlines, url \in Urls : ThreadCall(t, to, u, vb, url)
DoThreadCheck == \E t \in Threads : ThreadCheck(t)
DoThreadSign == \E t \in Threads, n \in Nonces : ThreadSign(t, n)
DoThreadLoadSpent == \E t \in Threads : ThreadLoadSpent(t)
DoThreadStoreSpent == \E t \in Threads : ThreadStoreSpent(t)
DoThreadAppend == \E t \in Threads : ThreadAppend(t)

InitThreads == InitWith(WalletNetworks, ThreadBudgetUnits, {TRUE})
NextThreads ==
    \/ DoThreadCall
    \/ DoThreadCheck
    \/ DoThreadSign
    \/ DoThreadLoadSpent
    \/ DoThreadStoreSpent
    \/ DoThreadAppend
SpecThreads == InitThreads /\ [][NextThreads]_vars

ThreadsDone == \A t \in Threads : threads[t].pc \in {"returned", "raised"}

RECURSIVE SumSigned(_)
SumSigned(T) ==
    IF T = {} THEN 0
    ELSE LET t == CHOOSE x \in T : TRUE
         IN  (IF threads[t].pc = "returned" THEN threads[t].amount_units ELSE 0)
                + SumSigned(T \ {t})

\* C2: when threads call sign_payment concurrently with amounts that each
\* fit the budget alone, the calls that succeed fit the budget together, the
\* others fail with BudgetExceeded, and spend never exceeds the budget
C2_ConcurrentSignsFitBudget ==
    /\ FloatGE(budget_usd, spent_usd)
    /\ ThreadsDone /\ network \in DOMAIN CHAIN_IDS =>
          /\ SumSigned(Threads) <= BudgetInUnits
          /\ \A t \in Threads :
                threads[t].pc = "raised" => threads[t].outcome = "BudgetExceeded"

\* C4: in every state a caller can observe, cumulative spend is the sum of
\* the amounts of the payment records: a signature comes with both the spend
\* and the record, a failure with neither
C4_SpendMatchesHistory == spent_usd = units_to_usd(SumUnits(payments))

(***************************************************************************)
(* tool.py: X402PaymentTool                                                 *)
(*                                                                          *)
(* A response is [status_code, text, headers]; headers carries the two      *)
(* requirement headers, each None or a header value.  A header value is     *)
(* [kind, req]: "empty" (the empty string), "garbage" (not base64 of JSON), *)
(* "array" (base64 of a JSON value that is not an object) or "object"       *)
(* (base64 of the JSON object req).  A requirement object has optional      *)
(* keys.  A result is what the call returns to the agent: the kind names    *)
(* the message template, and status, text and detail are what the message   *)
(* is formatted from.  A kind in Exceptions is no message: it names the     *)
(* exception that leaves _run uncaught.                                     *)
(***************************************************************************)
\* requirements.get("payTo") that finds no key hands None on as the address
NoneAddress == "None"
OptGet(opt, default) == IF opt = None THEN default ELSE opt[1]

Result(kind, status, text, detail) ==
    [kind |-> kind, status |-> status, text |-> text, detail |-> detail]

Exceptions == {"KeyError", "AttributeError", "EncodingError"}

\* what sign_payment raises as a ValueError
ValueErrors == {"BudgetExceeded", "UnsupportedNetwork"}

\* lines 72-78: json.loads(base64.b64decode(header_value)) hands back
\* whatever JSON value the header holds; None stands for the ValueError
parse_payment_requirements(header_value) ==
    IF header_value.kind \in {"object", "array"}
    THEN Some(header_value) ELSE None

\* lines 146-149: headers.get(primary) or headers.get(legacy)
payment_required_header(headers) ==
    IF headers.primary /= None /\ headers.primary[1].kind /= "empty"
    THEN headers.primary
    ELSE headers.legacy

\* line 150: `not payment_header`
header_missing(payment_header) ==
    payment_header = None \/ payment_header[1].kind = "empty"

\* the network check left out
network_mismatch_unchecked(req_network, wallet_network) == FALSE

\* line 166: `network and network != self.wallet.network`
network_mismatch(req_network, wallet_network) ==
    /\ req_network /= None /\ req_network[1] /= ""
    /\ req_network[1] /= wallet_network

\* line 173: `max_price_usd or self.wallet.remaining_usd`
effective_max(max_price_usd, remaining) ==
    IF max_price_usd /= None /\ max_price_usd[1] /= FloatZero
    THEN max_price_usd[1]
    ELSE remaining

\* automatic payment taken as always enabled
auto_pay_disabled_ignored(autopay) == FALSE

\* line 188: `not self.auto_pay`
auto_pay_disabled(autopay) == ~autopay

\* the assignment that forgets the other keys
DictSet_alone(dict, k, v) == {<<k, v>>}

\* dict assignment d[k] = v on a dict kept as a set of <<key, value>> pairs
DictSet(dict, k, v) == {kv \in dict : kv[1] /= k} \cup {<<k, v>>}

\* lines 80-103: the payload that is JSON- and base64-encoded; None stands
\* for the KeyError of requirements["payTo"], ["maxAmountRequired"] or
\* ["validUntil"].  Numbers are written as decimal strings ([str |-> n]),
\* the nonce and the signature as hex ([hex |-> x]).
build_payment_header(requirements, signature, nonce, wallet_address) ==
    IF \/ requirements.payTo = None
       \/ requirements.maxAmountRequired = None
       \/ requirements.validUntil = None
    THEN None
    ELSE Some([encoded |->
            [x402Version |-> OptGet(requirements.x402Version, 1),
             scheme      |-> OptGet(requirements.scheme, "exact"),
             network     |-> requirements.network,
             payload     |->
                [signature |-> [hex |-> signature],
                 authorization |->
                    [from |-> wallet_address,
                     to |-> requirements.payTo[1],
                     value |-> [str |-> requirements.maxAmountRequired[1]],
                     validAfter |-> [str |-> 0],
                     validBefore |-> [str |-> requirements.validUntil[1]],
                     nonce |-> [hex |-> nonce]]]]])

Request(method, url, body, headers) ==
    [method |-> method, url |-> url, content |-> body, headers |-> headers]

\* the error threshold taken as 500
passthrough_result_server_errors_only(response) ==
    IF response.status_code >= 500
    THEN Result("HttpError", response.status_code, response.text, None)
    ELSE Result("Body", response.status_code, response.text, None)

\* lines 139-143: the result for an initial response that is not a 402
passthrough_result(response) ==
    IF response.status_code >= 400
    THEN Result("HttpError", response.status_code, response.text, None)
    ELSE Result("Body", response.status_code, response.text, None)

\* lines 139-215 of _run (260-336 of _arun): everything between the receipt
\* of the initial response and either the return or the sending of the paid
\* request.  w is the wallet, call the call's arguments and request headers,
\* nonce what generate_nonce() draws if the payment is signed.  The outcome
\* is the new call state together with the ledger fields after the step.
after_initial_response(w, autopay, call, response, nonce) ==
    LET keep(result) ==
            [pc |-> "done", result |-> Some(result), signs |-> call.signs,
             signed |-> None, sent |-> call.sent,
             spent_usd |-> w.spent_usd, payments |-> w.payments]
        \* lines 205-215: the header is built and the paid request is sent
        retry(amount_units, signing, payment_value) ==
            [pc |-> IF payment_value = None THEN "done" ELSE "paid",
             result |-> IF payment_value = None
                        THEN Some(Result("KeyError", 402, response.text, None))
                        ELSE None,
             signs |-> call.signs + 1,
             signed |-> Some([signature |-> signing.signature[1],
                              nonce |-> nonce,
                              authorization |-> signing.authorization[1],
                              amount_units |-> amount_units]),
             sent |-> IF payment_value = None THEN call.sent
                      ELSE Append(call.sent,
                               Request(call.method, call.url, call.body,
                                       DictSet(call.request_headers,
                                               "PAYMENT-SIGNATURE",
                                               payment_value[1]))),
             spent_usd |-> signing.spent_usd,
             payments |-> signing.payments]
        \* lines 195-206: what sign_payment returned or raised
        pay(requirements, amount_units, signing) ==
            IF signing.outcome \in ValueErrors
            THEN [keep(Result("PaymentSigningFailed", 402, response.text,
                              Some(signing.outcome)))
                    EXCEPT !.signs = call.signs + 1]
            ELSE IF signing.outcome /= "Signed"
            THEN [keep(Result(signing.outcome, 402, response.text, None))
                    EXCEPT !.signs = call.signs + 1]
            ELSE retry(amount_units, signing,
                       build_payment_header(requirements,
                           signing.signature[1], nonce, w.address))
        \* lines 165-201: the checks on the requirement, in the code's order
        decide(requirements, amount_units, amount_usd, pay_to, valid_until, remaining, limit) ==
            IF network_mismatch(requirements.network, w.network)
            THEN keep(Result("NetworkMismatch", 402, response.text,
                             Some(requirements.network[1])))
            ELSE IF FloatGT(amount_usd, limit)
            THEN keep(Result("PriceRejected", 402, response.text,
                             Some([amount_usd |-> amount_usd,
                                   pay_to |-> pay_to, limit |-> limit])))
            ELSE IF ~can_afford(w.budget_usd, w.spent_usd, amount_usd)
            THEN keep(Result("BudgetRejected", 402, response.text,
                             Some([amount_usd |-> amount_usd,
                                   remaining |-> remaining])))
            ELSE IF auto_pay_disabled(autopay)
            THEN keep(Result("PaymentDeclined", 402, response.text,
                             Some([amount_usd |-> amount_usd,
                                   pay_to |-> pay_to])))
            ELSE pay(requirements, amount_units,
                     sign_payment(w, pay_to, amount_units, valid_until,
                                  call.url, nonce))
        \* line 173
        price(requirements, amount_units, amount_usd, remaining) ==
            decide(requirements, amount_units, amount_usd,
                   OptGet(requirements.payTo, NoneAddress),
                   OptGet(requirements.validUntil, 0),
                   remaining, effective_max(call.max_price_usd, remaining))
        \* lines 159-163
        extract(requirements, amount_units) ==
            price(requirements, amount_units, units_to_usd(amount_units),
                  remaining_usd(w.budget_usd, w.spent_usd))
        \* lines 153-159: requirements.get on a value that is no dict raises
        parse(parsed) ==
            IF parsed = None
            THEN keep(Result("MalformedRequirement", 402, response.text, None))
            ELSE IF parsed[1].kind /= "object"
            THEN keep(Result("AttributeError", 402, response.text, None))
            ELSE extract(parsed[1].req,
                         OptGet(parsed[1].req.maxAmountRequired, 0))
        \* lines 146-151
        lookup(payment_header) ==
            IF header_missing(payment_header)
            THEN keep(Result("MissingPaymentHeader", 402, response.text, None))
            ELSE parse(parse_payment_requirements(payment_header[1]))
    IN  IF response.status_code /= 402
        THEN keep(passthrough_result(response))
        ELSE lookup(payment_required_header(response.headers))

\* a paid retry answered by 402 taken as a new payment request
after_paid_response_pays_again(call, paid_response) ==
    IF paid_response.status_code = 402
    THEN [pc |-> "initial", result |-> None]
    ELSE [pc |-> "done",
          result |-> Some(Result("Body", paid_response.status_code,
                                 paid_response.text, None))]

\* the paid response's status not looked at
after_paid_response_ignores_status(call, paid_response) ==
    [pc |-> "done",
     result |-> Some(Result("Body", paid_response.status_code,
                            paid_response.text, None))]

\* lines 217-237 of _run (338-344 of _arun): the paid response ends the call
after_paid_response(call, paid_response) ==
    [pc |-> "done",
     result |-> Some(IF paid_response.status_code >= 400
                     THEN Result("PostPaymentError",
                                 paid_response.status_code,
                                 paid_response.text, None)
                     ELSE Result("Body", paid_response.status_code,
                                 paid_response.text, None))]

(***************************************************************************)
(* Negotiation calls.  A call is suspended only while it waits for a        *)
(* response of the transport (the two `await client.request`), so the code  *)
(* between two responses is one step.                                       *)
(***************************************************************************)
Methods      == {"GET"}
Bodies       == {None}
\* a proof header left over from an earlier payment
StaleProof ==
    [encoded |->
        [x402Version |-> 1, scheme |-> "exact", network |-> None,
         payload |->
            [signature |-> [hex |-> [signer |-> TestKey, signed |-> None]],
             authorization |->
                [from |-> get_wallet_address(TestKey), to |-> "0x1234",
                 value |-> [str |-> 100000], validAfter |-> [str |-> 0],
                 validBefore |-> [str |-> 2000000000],
                 nonce |-> [hex |-> "n0"]]]]]

HeaderArgs   == {None, Some({<<"Accept", "application/json">>}),
                 Some({<<"PAYMENT-SIGNATURE", StaleProof>>})}
MaxPrices    == {None, Some(FloatZero), Some(units_to_usd(500000)),
                 Some(units_to_usd(2000000))}
ToolBudgetUnits == {1000000}
ReqNetworks  == {None, Some(""), Some("base-sepolia"), Some("base-mainnet")}
ReqAmounts   == {Some(100000), Some(1200000)}
Texts        == {"body"}
InitialStatuses == {200, 404, 402}
PaidStatuses == {200, 402, 403}

\* requirements with every key
FullRequirements ==
    [x402Version : {Some(1)}, scheme : {Some("exact")}, network : ReqNetworks,
     payTo : {Some(a) : a \in Payees}, maxAmountRequired : ReqAmounts,
     validUntil : {Some(d) : d \in Deadlines}]

\* requirements without maxAmountRequired, without validUntil or without
\* both.  (A requirement without payTo hands None to the signing library as
\* the recipient; it is not drawn.)
PartialRequirements ==
    [x402Version : {Some(1)}, scheme : {Some("exact")}, network : {None},
     payTo : {Some(a) : a \in Payees},
     maxAmountRequired : {None, Some(100000)},
     validUntil : {None} \cup {Some(d) : d \in Deadlines}]
        \ FullRequirements

\* a complete requirement whose deadline is 0
ExpiredRequirements ==
    [x402Version : {Some(1)}, scheme : {Some("exact")}, network : {None},
     payTo : {Some(a) : a \in Payees}, maxAmountRequired : {Some(100000)},
     validUntil : {Some(0)}]

\* a complete requirement whose amount is below 0
NegativeRequirements ==
    [x402Version : {Some(1)}, scheme : {Some("exact")}, network : {None},
     payTo : {Some(a) : a \in Payees}, maxAmountRequired : {Some(-100000)},
     validUntil : {Some(d) : d \in Deadlines}]

Requirements ==
    FullRequirements \cup PartialRequirements \cup ExpiredRequirements
        \cup NegativeRequirements

EmptyHeader   == [kind |-> "empty", req |-> None]
GarbageHeader == [kind |-> "garbage", req |-> None]
ArrayHeader   == [kind |-> "array", req |-> None]
ObjectHeader(r) == [kind |-> "object", req |-> r]

PrimaryHeaders ==
    {None, Some(EmptyHeader), Some(GarbageHeader), Some(ArrayHeader)}
        \cup {Some(ObjectHeader(r)) : r \in Requirements}
LegacyHeaders ==
    {None} \cup {Some(ObjectHeader(r)) :
                    r \in {q \in FullRequirements : q.network = None}}

InitialResponses ==
    [status_code : InitialStatuses \ {402}, text : Texts,
     headers : {[primary |-> None, legacy |-> None]}]
    \cup
    [status_code : {402}, text : Texts,
     headers : [primary : PrimaryHeaders, legacy : LegacyHeaders]]

PaidResponses == [status_code : PaidStatuses, text : Texts]

\* lines 105-137: the call is entered and the initial request is sent
StartCall(c, url, method, body, headers, max_price_usd) ==
    /\ calls[c].pc \in {"idle", "done"}
    /\ Len(payments) < MaxPayments
    /\ LET request_headers == IF headers = None \/ headers[1] = {} THEN {}
                              ELSE headers[1]
       IN  calls' = [calls EXCEPT ![c] =
              [pc |-> "initial", url |-> url, method |-> method,
               body |-> body, request_headers |-> request_headers,
               max_price_usd |-> max_price_usd,
               sent |-> <<Request(method, url, body, request_headers)>>,
               response |-> None, paid_response |-> None,
               signs |-> 0, signed |-> None, result |-> None]]
    /\ UNCHANGED <<identity, ledger, auto_pay, threads, last>>

InitialResponse(c, response, nonce) ==
    /\ calls[c].pc = "initial"
    /\ \E r \in {after_initial_response(Wallet, auto_pay, calls[c], response,
                                       nonce)} :
           /\ calls' = [calls EXCEPT ![c] =
                  [@ EXCEPT !.pc = r.pc, !.result = r.result,
                            !.response = Some(response),
                            !.signs = r.signs, !.signed = r.signed,
                            !.sent = r.sent]]
           /\ spent_usd' = r.spent_usd
           /\ payments' = r.payments
    /\ UNCHANGED <<identity, budget_usd, auto_pay, threads, last>>

PaidResponse(c, paid_response) ==
    /\ calls[c].pc = "paid"
    /\ \E r \in {after_paid_response(calls[c], paid_response)} :
           calls' = [calls EXCEPT ![c] =
              [@ EXCEPT !.pc = r.pc, !.result = r.result,
                        !.paid_response = Some(paid_response)]]
    /\ UNCHANGED <<identity, ledger, auto_pay, threads, last>>

DoStartCall ==
    \E c \in Calls, url \in Urls, m \in Methods, b \in Bodies,
       h \in HeaderArgs, mp \in MaxPrices : StartCall(c, url, m, b, h, mp)
DoInitialResponse ==
    \E c \in Calls, resp \in InitialResponses, n \in Nonces :
        InitialResponse(c, resp, n)
DoPaidResponse ==
    \E c \in Calls, resp \in PaidResponses : PaidResponse(c, resp)

Init == InitWith(WalletNetworks, ToolBudgetUnits, BOOLEAN)
Next == DoStartCall \/ DoInitialResponse \/ DoPaidResponse
Spec == Init /\ [][Next]_vars

(***************************************************************************)
(* Properties of the negotiation                                            *)
(***************************************************************************)
Started(c) == calls[c].pc /= "idle"

\* the record that call c's payment left in the history
Recorded(call, history) ==
    \E i \in 1..Len(history) :
        /\ history[i].signature = call.signed[1].signature
        /\ history[i].nonce = call.signed[1].nonce
        /\ history[i].amount_units = call.signed[1].amount_units

\* C6: in every call sign_payment is invoked at most once and the transport
\* at most twice; the response to the paid retry ends the call, which never
\* goes back to the payment-required step, and a paid retry answered by 402
\* is reported as an error after payment
C6_OnePaymentAttempt ==
    /\ [](\A c \in Calls : Started(c) =>
            /\ calls[c].signs <= 1
            /\ Len(calls[c].sent) <= 2
            /\ calls[c].paid_response /= None =>
                  /\ calls[c].pc = "done"
                  /\ calls[c].paid_response[1].status_code = 402 =>
                        calls[c].result[1].kind = "PostPaymentError")
    /\ [][\A c \in Calls : calls[c].pc = "paid" =>
            calls'[c].pc \in {"paid", "done"}]_vars

\* a call that paid, retried and was answered 402 again
C6_Witness ==
    \E c \in Calls :
        /\ calls[c].pc = "done" /\ calls[c].signs = 1
        /\ Len(calls[c].sent) = 2
        /\ calls[c].paid_response /= None
        /\ calls[c].paid_response[1].status_code = 402

\* C7: the price ceiling is the caller's max_price_usd whenever one is
\* supplied (0 included) and the remaining budget only otherwise; an amount
\* above the ceiling is rejected without signature or wallet change, so no
\* call pays more than the maximum its caller supplied
C7_NeverPaysAboveCallerMax ==
    \A c \in Calls :
        Started(c) /\ calls[c].max_price_usd /= None /\ calls[c].signed /= None =>
            FloatGE(calls[c].max_price_usd[1],
                    units_to_usd(calls[c].signed[1].amount_units))

\* C8: when a payment was signed and the retried response has a status of
\* 400 or more, the call reports an error after payment that carries the
\* status and the body, and the payment stays recorded in the wallet
C8_PostPaymentErrorKeepsPayment ==
    [][\A c \in Calls :
          /\ calls[c].pc = "paid"
          /\ calls'[c].paid_response /= None
          /\ calls'[c].paid_response[1].status_code >= 400
          => /\ calls'[c].pc = "done"
             /\ calls'[c].result =
                   Some(Result("PostPaymentError",
                               calls'[c].paid_response[1].status_code,
                               calls'[c].paid_response[1].text, None))
             /\ ledger' = ledger
             /\ Recorded(calls[c], payments')
             /\ FloatGE(spent_usd',
                        units_to_usd(calls[c].signed[1].amount_units))]_vars

\* a call ended by a 403 to its paid retry, with its payment in the history
C8_Witness ==
    \E c \in Calls :
        /\ calls[c].pc = "done" /\ calls[c].paid_response /= None
        /\ calls[c].paid_response[1].status_code = 403
        /\ calls[c].result[1].kind = "PostPaymentError"
        /\ Recorded(calls[c], payments)

\* the requirement that a 402 response carries names a network other than
\* the wallet's
NamesOtherNetwork(response) ==
    /\ response.status_code = 402
    /\ ~header_missing(payment_required_header(response.headers))
    /\ LET h == payment_required_header(response.headers)[1]
       IN  /\ h.kind = "object"
           /\ h.req.network /= None
           /\ h.req.network[1] \notin {"", network}

C10_NonPaymentResponseReturned ==
    [][\A c \in Calls :
          /\ calls[c].pc = "initial"
          /\ calls'[c].response /= None
          /\ calls'[c].response[1].status_code /= 402
          => /\ calls'[c].pc = "done"
             /\ calls'[c].sent = calls[c].sent
             /\ Len(calls'[c].sent) = 1
             /\ calls'[c].signs = 0
             /\ calls'[c].signed = None
             /\ ledger' = ledger
             /\ calls'[c].result =
                   Some(Result(IF calls'[c].response[1].status_code < 400
                               THEN "Body" ELSE "HttpError",
                               calls'[c].response[1].status_code,
                               calls'[c].response[1].text, None))]_vars

\* a call answered 404 at once, on a wallet that has already paid
C10_Witness ==
    \E c \in Calls :
        /\ calls[c].pc = "done" /\ calls[c].response[1].status_code = 404
        /\ calls[c].result[1].kind = "HttpError"
        /\ Len(payments) >= 1

\* the requirement header that a 402 response carries is not base64 of a
\* JSON object, or the object lacks payTo, maxAmountRequired or validUntil
BadRequirement(response) ==
    /\ response.status_code = 402
    /\ ~header_missing(payment_required_header(response.headers))
    /\ LET h == payment_required_header(response.headers)[1]
       IN  \/ h.kind /= "object"
           \/ /\ h.kind = "object"
              /\ \/ h.req.payTo = None
                 \/ h.req.maxAmountRequired = None
                 \/ h.req.validUntil = None

\* C11: whenever the requirement header is not valid base64 of a JSON object
\* or a required field (payTo, maxAmountRequired, validUntil) is missing, the
\* call ends with MalformedRequirement without signing or spending; no
\* missing field is defaulted
C11_BadRequirementIsMalformed ==
    \A c \in Calls :
        /\ Started(c) /\ calls[c].response /= None
        /\ BadRequirement(calls[c].response[1])
        => /\ calls[c].pc = "done"
           /\ calls[c].result[1].kind = "MalformedRequirement"
           /\ calls[c].signs = 0
           /\ calls[c].signed = None

\* C12: every call that has ended has returned a textual result to its
\* caller; no outcome of the negotiation, for any requirement a server can
\* send, leaves the call as an exception
C12_EveryOutcomeIsReturned ==
    \A c \in Calls :
        calls[c].pc = "done" =>
            /\ calls[c].result /= None
            /\ calls[c].result[1].kind \notin Exceptions

\* the payment proof attached to the paid request of a call
ProofOf(call) ==
    (CHOOSE kv \in call.sent[2].headers : kv[1] = "PAYMENT-SIGNATURE")[2].encoded

\* C13: for every paid retry the proof restates the authorization that was
\* signed: from, to, value, validAfter, validBefore and nonce, and the
\* network, denote the values of the TransferAuthorization and the network
\* that were passed to the signer
C13_ProofRestatesSignedAuthorization ==
    \A c \in Calls :
        Started(c) /\ Len(calls[c].sent) = 2 =>
            LET proof  == ProofOf(calls[c])
                auth   == calls[c].signed[1].authorization
                signed == calls[c].signed[1].signature.signed
            IN  /\ proof.payload.authorization.from = auth.from_address
                /\ proof.payload.authorization.to = auth.to_address
                /\ proof.payload.authorization.value.str = auth.value
                /\ proof.payload.authorization.validAfter.str = auth.valid_after
                /\ proof.payload.authorization.validBefore.str = auth.valid_before
                /\ proof.payload.authorization.nonce.hex = auth.nonce
                /\ proof.payload.signature.hex = calls[c].signed[1].signature
                /\ build_eip712_message(auth, network) = Some(signed)
                /\ proof.network = Some(network)

(***************************************************************************)
(* Properties of the wallet operations                                      *)
(***************************************************************************)
\* C14: a successful sign_payment appends exactly one record at the end of
\* the history and a failed one leaves the history as it is; only
\* reset_budget changes or removes a record, so between resets every earlier
\* history is a prefix of every later one
C14_HistoryOnlyGrows ==
    [][last'.op /= "reset_budget" =>
          IF last'.outcome = "Signed"
          THEN /\ Len(payments') = Len(payments) + 1
               /\ SubSeq(payments', 1, Len(payments)) = payments
               /\ payments'[Len(payments')].nonce = last'.arg[1]
               /\ payments'[Len(payments')].amount_units = last'.amount_units
          ELSE payments' = payments]_vars

\* a successful sign_payment on a wallet that already has two records
C14_Witness ==
    /\ last.op = "sign_payment" /\ last.outcome = "Signed"
    /\ Len(payments) = 3

\* C15: reset_budget, from any wallet state, sets the spend to zero and
\* empties the history; it replaces the budget only when a new value is
\* given and keeps it otherwise; address, private key and network stay
C15_ResetClearsLedgerOnly ==
    [][last'.op = "reset_budget" =>
          /\ spent_usd' = FloatZero
          /\ payments' = <<>>
          /\ budget_usd' = IF last'.arg = None THEN budget_usd
                           ELSE last'.arg[1]
          /\ identity' = identity]_vars

\* a reset that has put a new budget of 0.30 in place
C15_Witness ==
    /\ last.op = "reset_budget" /\ last.arg = Some(units_to_usd(300000))
    /\ payments = <<>> /\ spent_usd = FloatZero
    /\ budget_usd = units_to_usd(300000)

\* C16: can_afford(a) is true exactly when the remaining budget is at least
\* a: sign_payment of the whole remaining budget succeeds and leaves a
\* remaining budget of 0, and sign_payment of any larger amount fails
C16_WholeRemainderIsAffordable ==
    [][last'.op = "sign_payment" /\ network \in DOMAIN CHAIN_IDS =>
          LET a == units_to_usd(last'.amount_units)
              remaining == remaining_usd(budget_usd, spent_usd)
          IN  /\ (last'.outcome = "Signed") = FloatGE(remaining, a)
              /\ FloatGT(a, remaining) => last'.outcome = "BudgetExceeded"
              /\ a = remaining =>
                    /\ last'.outcome = "Signed"
                    /\ remaining_usd(budget_usd', spent_usd') = FloatZero]_vars

(***************************************************************************)
(* Properties of the negotiation, continued                                 *)
(***************************************************************************)
\* what a call that has handled its 402 response shows when its requirement
\* was read from the header value h: the amount it signed or reported and
\* the network it reported are those of h, and a value that is no JSON
\* object is not acted upon
ReadFrom(call, h) ==
    IF h.kind /= "object"
    THEN /\ call.signed = None
         /\ call.result[1].kind \in
               {"MissingPaymentHeader", "MalformedRequirement",
                "AttributeError"}
    ELSE LET units == OptGet(h.req.maxAmountRequired, 0)
         IN  /\ call.signed /= None => call.signed[1].amount_units = units
             /\ call.result /= None =>
                   /\ call.result[1].kind \notin
                         {"MissingPaymentHeader", "MalformedRequirement",
                          "AttributeError"}
                   /\ call.result[1].kind \in
                         {"PriceRejected", "BudgetRejected", "PaymentDeclined"}
                      => call.result[1].detail[1].amount_usd =
                            units_to_usd(units)
                   /\ call.result[1].kind = "NetworkMismatch"
                      => call.result[1].detail = h.req.network

\* C17: on a 402 response the requirement is read from the primary header
\* when that header is present and from the legacy header only otherwise;
\* when neither is present the call ends with the missing-header error, with
\* no second request, no signing and the wallet unchanged
C17_PrimaryHeaderWins ==
    [][\A c \in Calls :
          /\ calls[c].pc = "initial"
          /\ calls'[c].response /= None
          /\ calls'[c].response[1].status_code = 402
          => LET headers == calls'[c].response[1].headers
             IN  IF headers.primary /= None
                 THEN ReadFrom(calls'[c], headers.primary[1])
                 ELSE IF headers.legacy /= None
                 THEN ReadFrom(calls'[c], headers.legacy[1])
                 ELSE /\ calls'[c].pc = "done"
                      /\ calls'[c].result[1].kind = "MissingPaymentHeader"
                      /\ calls'[c].sent = calls[c].sent
                      /\ calls'[c].signs = 0
                      /\ calls'[c].signed = None
                      /\ ledger' = ledger]_vars

\* the requirement that a 402 response carries is complete and passes the
\* network, price and budget checks of a call with the ceiling max_price_usd
\* on the wallet as it is
Acceptable(response, max_price_usd) ==
    /\ response.status_code = 402
    /\ ~header_missing(payment_required_header(response.headers))
    /\ ~BadRequirement(response)
    /\ LET req == payment_required_header(response.headers)[1].req
           a == units_to_usd(req.maxAmountRequired[1])
           remaining == remaining_usd(budget_usd, spent_usd)
       IN  /\ req.network \in {None, Some(""), Some(network)}
           /\ FloatGE(IF max_price_usd = None THEN remaining
                      ELSE max_price_usd[1], a)
           /\ FloatGE(remaining, a)

\* C18: with automatic payment disabled, a requirement that passes the
\* network, price and budget checks ends the call in PaymentDeclined, which
\* reports the amount and the recipient; sign_payment is not called, no
\* second request is sent and the wallet is unchanged
C18_DeclinedWithoutAutoPay ==
    [][\A c \in Calls :
          /\ calls[c].pc = "initial"
          /\ calls'[c].response /= None
          /\ ~auto_pay
          /\ Acceptable(calls'[c].response[1], calls[c].max_price_usd)
          => LET req == payment_required_header(
                            calls'[c].response[1].headers)[1].req
             IN  /\ calls'[c].pc = "done"
                 /\ calls'[c].result =
                       Some(Result("PaymentDeclined", 402,
                                   calls'[c].response[1].text,
                                   Some([amount_usd |->
                                            units_to_usd(req.maxAmountRequired[1]),
                                         pay_to |-> req.payTo[1]])))
                 /\ calls'[c].signs = 0
                 /\ calls'[c].signed = None
                 /\ calls'[c].sent = calls[c].sent
                 /\ Len(calls'[c].sent) = 1
                 /\ ledger' = ledger]_vars

\* a call declined for want of automatic payment, under a ceiling of 0.50
C18_Witness ==
    \E c \in Calls :
        /\ ~auto_pay /\ calls[c].pc = "done"
        /\ calls[c].result[1].kind = "PaymentDeclined"
        /\ calls[c].max_price_usd = Some(units_to_usd(500000))
        /\ ~BadRequirement(calls[c].response[1])
        /\ calls[c].result[1].detail[1].amount_usd = units_to_usd(100000)

(***************************************************************************)
(* Unit conversion                                                          *)
(***************************************************************************)
Nines(n) == [i \in 1..n |-> 9]

\* amounts in units: small ones, 10^28 - 1, 10^28, 10^28 + 1 and a number of
\* 34 digits
UnitInputs ==
    {IntOf(FALSE, DigitsOfNat(n)) :
        n \in {0, 1, 10, 10000, 123456, 1000000, 1500000, 2147483647}}
    \cup {IntOf(FALSE, Nines(DecimalPrec)),
          IntOf(FALSE, Zeros(DecimalPrec) \o <<1>>),
          IntOf(FALSE, <<1>> \o Zeros(DecimalPrec - 1) \o <<1>>),
          IntOf(FALSE, Nines(34))}

\* amounts in USD with at most 6 decimal places: 0, 1.0, 0.01, 0.000001,
\* 0.1, 1.5, 123.456789, -0.5, 1E+3, 9999999999999999999999.999999 and
\* 10000000000000000000000.000001
UsdInputs ==
    {Decimal(FALSE, <<>>, 0), Decimal(FALSE, <<0, 1>>, -1),
     Decimal(FALSE, <<1>>, -2), Decimal(FALSE, <<1>>, -6),
     Decimal(FALSE, <<1>>, -1), Decimal(FALSE, <<5, 1>>, -1),
     Decimal(FALSE, DigitsOfNat(123456789), -6),
     Decimal(TRUE, <<5>>, -1), Decimal(FALSE, <<1>>, 3),
     Decimal(FALSE, Nines(DecimalPrec), -6),
     Decimal(FALSE, <<1>> \o Zeros(DecimalPrec - 1) \o <<1>>, -6)}

\* wallet.usd_to_units(wallet.units_to_usd(units))
ConvertUnits(units) ==
    /\ last' = [op |-> "units_to_usd", outcome |-> "Converted",
                amount_units |-> 0,
                arg |-> Some([input |-> units,
                              output |-> units_to_usd_decimal(units),
                              back |-> usd_to_units(
                                          units_to_usd_decimal(units))])]
    /\ UNCHANGED <<identity, ledger, auto_pay, calls, threads>>

\* wallet.units_to_usd(wallet.usd_to_units(usd))
ConvertUsd(usd) ==
    /\ last' = [op |-> "usd_to_units", outcome |-> "Converted",
                amount_units |-> 0,
                arg |-> Some([input |-> usd,
                              output |-> usd_to_units(usd),
                              back |-> units_to_usd_decimal(
                                          usd_to_units(usd))])]
    /\ UNCHANGED <<identity, ledger, auto_pay, calls, threads>>

DoConvertUnits == \E u \in UnitInputs : ConvertUnits(u)
DoConvertUsd == \E x \in UsdInputs : ConvertUsd(x)

InitConvert == InitWith(WalletNetworks, BudgetUnits, {TRUE})
NextConvert == DoConvertUnits \/ DoConvertUsd
SpecConvert == InitConvert /\ [][NextConvert]_vars

\* C19: the conversions round-trip exactly at 1 USD = 1,000,000 units:
\* usd_to_units(units_to_usd(u)) = u for every non-negative integer u, and
\* units_to_usd(usd_to_units(x)) = x for every x with at most 6 decimal
\* places
C19_ConversionRoundTrips ==
    /\ last.op = "units_to_usd" => last.arg[1].back = last.arg[1].input
    /\ last.op = "usd_to_units" =>
          DecimalEq(last.arg[1].back, last.arg[1].input)

\* C20: every TransferAuthorization that sign_payment signs for a
\* requirement that a negotiation accepts has validAfter = 0 and
\* validAfter < validBefore
C20_SignedAuthorizationNotExpired ==
    \A c \in Calls :
        Started(c) /\ calls[c].signed /= None =>
            /\ calls[c].signed[1].authorization.valid_after = 0
            /\ calls[c].signed[1].authorization.valid_after
                  < calls[c].signed[1].authorization.valid_before

\* the headers of a request under the name k
HeadersNamed(request, k) == {kv \in request.headers : kv[1] = k}

\* the retry is sent after sign_payment has returned, in the step that
\* signs, and the initial request before it
RetryFollowsSigning ==
    /\ [](\A c \in Calls : Started(c) =>
            /\ Len(calls[c].sent) >= 1
            /\ Len(calls[c].sent) = 2 =>
                  /\ calls[c].signs = 1 /\ calls[c].signed /= None
                  /\ ProofOf(calls[c]).payload.signature.hex
                        = calls[c].signed[1].signature)
    /\ [][\A c \in Calls :
            calls[c].pc /= "idle" /\ Len(calls'[c].sent) > Len(calls[c].sent)
            => /\ calls[c].pc = "initial" /\ calls[c].signs = 0
               /\ Len(calls[c].sent) = 1 /\ calls'[c].signs = 1
               /\ calls'[c].sent[1] = calls[c].sent[1]]_vars

RejectionsUnder(response, limit) ==
    LET req == payment_required_header(response.headers)[1].req
        a == units_to_usd(req.maxAmountRequired[1])
    IN  <<NamesOtherNetwork(response),
          FloatGT(a, limit),
          ~FloatGE(remaining_usd(budget_usd, spent_usd), a),
          ~auto_pay>>

\* the ceiling of spec section 4.4 step 6: the caller's maximum when one is
\* given, the remaining budget otherwise
CallerCeiling(max_price_usd) ==
    IF max_price_usd = None THEN remaining_usd(budget_usd, spent_usd)
    ELSE max_price_usd[1]

RejectionKinds ==
    <<"NetworkMismatch", "PriceRejected", "BudgetRejected", "PaymentDeclined">>

\* a 402 response with a complete requirement
CompleteRequirement(response) ==
    /\ response.status_code = 402
    /\ ~header_missing(payment_required_header(response.headers))
    /\ ~BadRequirement(response)

\* the call's outcome is the first of the conditions that hold, whenever two
\* or more hold, and BudgetRejected whenever the ceiling admits the amount,
\* the remaining budget does not and the network matches
DecidedInOrder(call, holds) ==
    /\ Cardinality({i \in 1..4 : holds[i]}) >= 2 =>
          \A i \in 1..4 :
              holds[i] /\ (\A j \in 1..(i - 1) : ~holds[j])
              => /\ call.pc = "done"
                 /\ call.result[1].kind = RejectionKinds[i]
                 /\ call.signs = 0
    /\ ~holds[1] /\ ~holds[2] /\ holds[3] =>
          /\ call.pc = "done"
          /\ call.result[1].kind = "BudgetRejected"
          /\ call.signs = 0

\* C22: when several rejection conditions hold for the same requirement the
\* outcome is decided in a fixed order: network mismatch before price
\* rejection, price rejection before budget rejection, budget rejection
\* before auto-pay declined; the budget rejection is produced when the
\* caller's ceiling admits the amount and the remaining budget does not
C22_RejectionsInFixedOrder ==
    [][\A c \in Calls :
          /\ calls[c].pc = "initial"
          /\ calls'[c].response /= None
          /\ CompleteRequirement(calls'[c].response[1])
          => DecidedInOrder(calls'[c],
                 RejectionsUnder(calls'[c].response[1],
                                 CallerCeiling(calls[c].max_price_usd)))]_vars

(***************************************************************************)
(* tool.py: X402PaymentTool._arun, the coroutine.  It is translated on its  *)
(* own from lines 249-344.  A task is suspended only at its two             *)
(* `await client.request(...)`; the event loop runs the code between two    *)
(* awaits of a task without running another task.                           *)
(***************************************************************************)

\* the paid response's status not looked at by the coroutine
arun_after_paid_response_ignores_status(call, paid_response) ==
    [pc |-> "done",
     result |-> Some(Result("Body", paid_response.status_code,
                            paid_response.text, None))]

\* lines 338-344 of _arun: the awaited paid response ends the task
arun_after_paid_response(call, paid_response) ==
    IF paid_response.status_code >= 400
    THEN [pc |-> "done",
          result |-> Some(Result("PostPaymentError",
                                 paid_response.status_code,
                                 paid_response.text, None))]
    ELSE [pc |-> "done",
          result |-> Some(Result("Body", paid_response.status_code,
                                 paid_response.text, None))]

\* lines 262-336 of _arun: from the awaited initial response to the return or
\* to the await of the paid request
arun_after_initial_response(w, autopay, call, response, nonce) ==
    LET returns(kind, detail) ==
            [pc |-> "done",
             result |-> Some(Result(kind, response.status_code, response.text,
                                    detail)),
             signs |-> call.signs, signed |-> None, sent |-> call.sent,
             spent_usd |-> w.spent_usd, payments |-> w.payments]
        raises(exception, signing, amount_units) ==
            [pc |-> "done",
             result |-> Some(Result(exception, response.status_code,
                                    response.text, None)),
             signs |-> call.signs + 1,
             signed |-> Some([signature |-> signing.signature[1],
                              nonce |-> nonce,
                              authorization |-> signing.authorization[1],
                              amount_units |-> amount_units]),
             sent |-> call.sent,
             spent_usd |-> signing.spent_usd, payments |-> signing.payments]
        \* lines 329-336
        awaits_paid(signing, amount_units, payment_value) ==
            [pc |-> "paid", result |-> None,
             signs |-> call.signs + 1,
             signed |-> Some([signature |-> signing.signature[1],
                              nonce |-> nonce,
                              authorization |-> signing.authorization[1],
                              amount_units |-> amount_units]),
             sent |-> Append(call.sent,
                         Request(call.method, call.url, call.body,
                                 DictSet(call.request_headers,
                                         "PAYMENT-SIGNATURE", payment_value))),
             spent_usd |-> signing.spent_usd, payments |-> signing.payments]
        \* line 327
        built(signing, amount_units, payment_value) ==
            IF payment_value = None
            THEN raises("KeyError", signing, amount_units)
            ELSE awaits_paid(signing, amount_units, payment_value[1])
        \* lines 316-324
        signs(requirements, amount_units, signing) ==
            IF signing.outcome = "Signed"
            THEN built(signing, amount_units,
                       build_payment_header(requirements,
                           signing.signature[1], nonce, w.address))
            ELSE IF signing.outcome \in ValueErrors
            THEN [returns("PaymentSigningFailed", Some(signing.outcome))
                    EXCEPT !.signs = call.signs + 1]
            ELSE [returns(signing.outcome, None)
                    EXCEPT !.signs = call.signs + 1]
        \* lines 287-313
        checks(requirements, amount_units, amount_usd, pay_to, remaining, limit) ==
            CASE network_mismatch(requirements.network, w.network) ->
                    returns("NetworkMismatch", Some(requirements.network[1]))
              [] ~network_mismatch(requirements.network, w.network)
                 /\ FloatGT(amount_usd, limit) ->
                    returns("PriceRejected",
                            Some([amount_usd |-> amount_usd, pay_to |-> pay_to,
                                  limit |-> limit]))
              [] ~network_mismatch(requirements.network, w.network)
                 /\ ~FloatGT(amount_usd, limit)
                 /\ ~can_afford(w.budget_usd, w.spent_usd, amount_usd) ->
                    returns("BudgetRejected",
                            Some([amount_usd |-> amount_usd,
                                  remaining |-> remaining]))
              [] ~network_mismatch(requirements.network, w.network)
                 /\ ~FloatGT(amount_usd, limit)
                 /\ can_afford(w.budget_usd, w.spent_usd, amount_usd)
                 /\ auto_pay_disabled(autopay) ->
                    returns("PaymentDeclined",
                            Some([amount_usd |-> amount_usd,
                                  pay_to |-> pay_to]))
              [] OTHER ->
                    signs(requirements, amount_units,
                          sign_payment(w, pay_to, amount_units,
                              OptGet(requirements.validUntil, 0), call.url,
                              nonce))
        \* lines 280-294
        details(requirements, amount_units, remaining) ==
            checks(requirements, amount_units, units_to_usd(amount_units),
                   OptGet(requirements.payTo, NoneAddress), remaining,
                   effective_max(call.max_price_usd, remaining))
        \* lines 274-281
        parsed(value) ==
            IF value = None THEN returns("MalformedRequirement", None)
            ELSE IF value[1].kind /= "object"
            THEN returns("AttributeError", None)
            ELSE details(value[1].req,
                         OptGet(value[1].req.maxAmountRequired, 0),
                         remaining_usd(w.budget_usd, w.spent_usd))
        \* lines 268-272
        header(payment_header) ==
            IF header_missing(payment_header)
            THEN returns("MissingPaymentHeader", None)
            ELSE parsed(parse_payment_requirements(payment_header[1]))
    IN  IF response.status_code = 402
        THEN header(payment_required_header(response.headers))
        ELSE [pc |-> "done", result |-> Some(passthrough_result(response)),
              signs |-> call.signs, signed |-> None, sent |-> call.sent,
              spent_usd |-> w.spent_usd, payments |-> w.payments]

NumTasks == 2
Tasks == 1..NumTasks

AsyncBudgetUnits == {1000000, 3400000}
AsyncMaxPrices   == {None, Some(units_to_usd(2000000))}
AsyncAmounts     == {700000, 1200000, 2200000}

AsyncRequirements ==
    [x402Version : {Some(1)}, scheme : {Some("exact")},
     network : {None, Some("base-mainnet")},
     payTo : {Some(a) : a \in Payees},
     maxAmountRequired : {Some(u) : u \in AsyncAmounts},
     validUntil : {Some(d) : d \in Deadlines}]
    \cup
    [x402Version : {Some(1)}, scheme : {Some("exact")}, network : {None},
     payTo : {Some(a) : a \in Payees},
     maxAmountRequired : {Some(700000)}, validUntil : {None}]

AsyncResponses ==
    [status_code : {200, 404}, text : Texts,
     headers : {[primary |-> None, legacy |-> None]}]
    \cup
    [status_code : {402}, text : Texts,
     headers : [primary : {None, Some(GarbageHeader), Some(ArrayHeader)}
                            \cup {Some(ObjectHeader(r)) : r \in AsyncRequirements},
                legacy : {None}]]

AsyncPaidResponses == [status_code : {200, 403}, text : Texts]

\* lines 249-258: the task is started and suspended at the first await
ArunStart(c, url, method, body, headers, max_price_usd) ==
    /\ calls[c].pc = "idle"
    /\ LET request_headers == IF headers = None \/ headers[1] = {} THEN {}
                              ELSE headers[1]
       IN  calls' = [calls EXCEPT ![c] =
              [pc |-> "initial", url |-> url, method |-> method,
               body |-> body, request_headers |-> request_headers,
               max_price_usd |-> max_price_usd,
               sent |-> <<Request(method, url, body, request_headers)>>,
               response |-> None, paid_response |-> None,
               signs |-> 0, signed |-> None, result |-> None]]
    /\ UNCHANGED <<identity, ledger, auto_pay, threads, last>>

\* lines 253-336: the first await is resumed with the response
ArunInitialResponse(c, response, nonce) ==
    /\ calls[c].pc = "initial"
    /\ \E r \in {arun_after_initial_response(Wallet, auto_pay, calls[c],
                                            response, nonce)} :
           /\ calls' = [calls EXCEPT ![c] =
                  [@ EXCEPT !.pc = r.pc, !.result = r.result,
                            !.response = Some(response),
                            !.signs = r.signs, !.signed = r.signed,
                            !.sent = r.sent]]
           /\ spent_usd' = r.spent_usd
           /\ payments' = r.payments
    /\ UNCHANGED <<identity, budget_usd, auto_pay, threads, last>>

\* lines 331-344: the second await is resumed with the paid response
ArunPaidResponse(c, paid_response) ==
    /\ calls[c].pc = "paid"
    /\ \E r \in {arun_after_paid_response(calls[c], paid_response)} :
           calls' = [calls EXCEPT ![c] =
              [@ EXCEPT !.pc = r.pc, !.result = r.result,
                        !.paid_response = Some(paid_response)]]
    /\ UNCHANGED <<identity, ledger, auto_pay, threads, last>>

DoArunStart ==
    \E c \in Tasks, url \in Urls, m \in Methods, b \in Bodies,
       mp \in AsyncMaxPrices :
        ArunStart(c, url, m, b, Some({<<"Accept", "application/json">>}), mp)
DoArunInitialResponse ==
    \E c \in Tasks, resp \in AsyncResponses, n \in Nonces :
        ArunInitialResponse(c, resp, n)
DoArunPaidResponse ==
    \E c \in Tasks, resp \in AsyncPaidResponses : ArunPaidResponse(c, resp)

\* one tool on one wallet, shared by the tasks of one event loop
InitAsync ==
    /\ private_key = TestKey
    /\ address = get_wallet_address(TestKey)
    /\ network \in WalletNetworks
    /\ budget_usd \in {units_to_usd(b) : b \in AsyncBudgetUnits}
    /\ spent_usd = FloatZero
    /\ payments = <<>>
    /\ auto_pay \in BOOLEAN
    /\ calls = [c \in Tasks |-> IdleCall]
    /\ threads = [t \in Threads |-> IdleThread]
    /\ last = [op |-> "init", outcome |-> "init", amount_units |-> 0,
               arg |-> None]
NextAsync == DoArunStart \/ DoArunInitialResponse \/ DoArunPaidResponse
SpecAsync == InitAsync /\ [][NextAsync]_vars

\* C23: when several negotiation calls run concurrently on one wallet as
\* tasks that are suspended only while they wait for a transport response,
\* cumulative spend never exceeds the budget ceiling, in any interleaving
C23_AsyncSpendWithinBudget ==
    ~FloatGT(spent_usd, budget_usd)

\* what _run makes of the step that _arun took: the state of the call and of
\* the ledger after the initial response, or after the paid response
SameAsRun(c) ==
    /\ calls[c].pc = "idle" /\ calls'[c].pc = "initial" =>
          calls'[c].sent =
             <<Request(calls'[c].method, calls'[c].url, calls'[c].body,
                       calls'[c].request_headers)>>
    /\ calls[c].pc = "initial" /\ calls'[c].response /= None =>
          \E n \in Nonces :
              \E r \in {after_initial_response(Wallet, auto_pay, calls[c],
                                               calls'[c].response[1], n)} :
                  /\ calls'[c].pc = r.pc
                  /\ calls'[c].result = r.result
                  /\ calls'[c].sent = r.sent
                  /\ calls'[c].signs = r.signs
                  /\ calls'[c].signed = r.signed
                  /\ spent_usd' = r.spent_usd
                  /\ payments' = r.payments
                  /\ budget_usd' = budget_usd
    /\ calls[c].pc = "paid" /\ calls'[c].paid_response /= None =>
          \E r \in {after_paid_response(calls[c], calls'[c].paid_response[1])} :
              /\ calls'[c].pc = r.pc
              /\ calls'[c].result = r.result
              /\ calls'[c].sent = calls[c].sent
              /\ ledger' = ledger

\* C24: started from the same wallet state with the same arguments and the
\* same transport responses, _arun sends the same requests, returns the same
\* result and leaves the wallet in the same state as _run, step for step
C24_ArunSameAsRun == [][\A c \in Tasks : SameAsRun(c)]_vars

\* a task that paid and was refused after payment, next to one that was
\* rejected for its price
C24_Witness ==
    \E c, d \in Tasks :
        /\ calls[c].pc = "done" /\ calls[c].result[1].kind = "PostPaymentError"
        /\ calls[d].pc = "done" /\ calls[d].result[1].kind = "PriceRejected"

\* the requirement read from the 402 response asks for more than the
\* wallet's remaining budget
ExceedsRemaining(response) ==
    /\ response.status_code = 402
    /\ ~header_missing(payment_required_header(response.headers))
    /\ LET h == payment_required_header(response.headers)[1]
       IN  /\ h.kind = "object"
           /\ h.req.maxAmountRequired /= None
           /\ FloatGT(units_to_usd(h.req.maxAmountRequired[1]),
                      remaining_usd(budget_usd, spent_usd))

\* the rejection the claim names for an amount and a caller's maximum
RejectionFor(amount_usd, max_price_usd) ==
    IF max_price_usd = None THEN "PriceRejected"
    ELSE IF FloatGT(amount_usd, max_price_usd[1]) THEN "PriceRejected"
    ELSE "BudgetRejected"

\* no call of a negotiation run alone ends by sign_payment's BudgetExceeded
NoSigningRefusedForBudget ==
    [](\A c \in Calls :
          calls[c].pc = "done" /\ calls[c].result /= None
          => ~(/\ calls[c].result[1].kind = "PaymentSigningFailed"
               /\ calls[c].result[1].detail = Some("BudgetExceeded")))

RequiredUnits(call) ==
    payment_required_header(call.response[1].headers)[1].req
        .maxAmountRequired[1]

====
